---- MODULE Spec2Model ----
(***************************************************************************)
(* TraceLoggingTransport (bluemix/http/transport.go): a RoundTripper that  *)
(* dumps each request and response to the trace logger around a call to    *)
(* the wrapped RoundTripper.                                               *)
(*                                                                         *)
(* Text is modelled as a sequence of tokens; a body is a stream with a     *)
(* read position and a failure mode.  Every caller performs one RoundTrip  *)
(* on the shared transport; callers interleave at the points where the     *)
(* code blocks or performs a separate logger write.                        *)
(***************************************************************************)
EXTENDS Integers, Sequences, FiniteSets, TLC

VARIABLES rtArg, rt, now, log, call, callers, reqPool, respPool, times

vars == <<rtArg, rt, now, log, call, callers, reqPool, respPool, times>>

-----------------------------------------------------------------------------
(* Bounds of the model *)

MaxBody == 1        \* longest body, in tokens
MaxMono == 2        \* last reading of the monotonic clock
MaxWall == 2        \* last reading of the wall clock
TicksPerMs == 2     \* monotonic clock ticks per millisecond
WallPerSec == 2     \* wall clock ticks per second

-----------------------------------------------------------------------------
(* Values *)

NoErr == "nil"
NilRT == "nil"
DefaultTransport == "http.DefaultTransport"
CustomRT == "custom RoundTripper"

ExecErrs == {"dial tcp: connection refused", "context deadline exceeded"}
ReadError == "body read error"
CloseError == "body close error"

Multipart == "multipart/form-data"
Placeholder == "[PRIVATE DATA HIDDEN]"
MarkerLine == "[MULTIPART/FORM-DATA CONTENT HIDDEN]"

\* what request bodies and response bodies are made of
BodyTok == {"a=1&b=2", "password=hunter2"}
RespTok == {"access_token=abc"}
Sensitive == {"Bearer secret123", "password=hunter2", "access_token=abc"}

\* values of the Content-Type header, as token sequences
ContentTypes ==
    { <<"application/x-www-form-urlencoded">>,
      <<Multipart, "; boundary=x">>,
      <<"Multipart/Form-Data">> }

RECURSIVE SeqsUpTo(_, _)
SeqsUpTo(S, n) ==
    IF n = 0 THEN {<<>>}
    ELSE LET shorter == SeqsUpTo(S, n - 1)
         IN  shorter \cup {Append(s, x) : s \in shorter, x \in S}

-----------------------------------------------------------------------------
(* Body streams (io.ReadCloser) *)

\* a reader over data: fail = "read" makes Read fail once failAt tokens were
\* delivered, fail = "close" makes Close fail
Stream(data, fail, failAt) ==
    [data |-> data, pos |-> 0, fail |-> fail, failAt |-> failAt, closed |-> FALSE]

\* an in-memory copy, as bytes.Buffer / bytes.Reader behind io.NopCloser
Buffer(data) == Stream(data, "none", 0)

\* the streams over tokens of S: sound ones, ones that fail to close, and
\* ones that fail to read at any point
Streams(S) ==
    UNION { {Stream(d, "none", 0), Stream(d, "close", 0)}
              \cup {Stream(d, "read", k) : k \in 0..Len(d)}
            : d \in SeqsUpTo(S, MaxBody) }

\* reading a stream to its end: the tokens delivered, whether the read failed,
\* and the stream afterwards
ReadAll(s) ==
    IF s.fail = "read" /\ s.failAt >= s.pos
    THEN [read |-> SubSeq(s.data, s.pos + 1, s.failAt), failed |-> TRUE,
          stream |-> [s EXCEPT !.pos = s.failAt]]
    ELSE [read |-> SubSeq(s.data, s.pos + 1, Len(s.data)), failed |-> FALSE,
          stream |-> [s EXCEPT !.pos = Len(s.data)]]

\* what a consumer of the stream can still read from it
Readable(s) == ReadAll(s).read

-----------------------------------------------------------------------------
(* Requests and responses *)

NilStream == Buffer(<<>>)
NilReq == [id |-> 0, ct |-> <<>>, body |-> NilStream]
NilResp == [id |-> 0, status |-> 0, body |-> NilStream]

\* the requests a caller may send; the id is the identity of the object
Requests ==
    [ct : ContentTypes, body : Streams(BodyTok)]

\* the responses the wrapped RoundTripper may produce
Responses ==
    [status : {200}, body : Streams(RespTok)]

\* a few plain requests and responses, for runs with concurrent callers
FewRequests ==
    { r \in Requests :
        /\ r.ct \in {<<"application/x-www-form-urlencoded">>, <<Multipart, "; boundary=x">>}
        /\ r.body.data # <<>>
        /\ r.body.fail \in {"none", "close"}
        /\ r.body.data[1] = "a=1&b=2" }

FewResponses ==
    { r \in Responses : r.body = Buffer(<<"access_token=abc">>) }

\* Header.Get("Content-Type")
HeaderGetContentType(req) == req.ct

\* strings.Contains over token sequences
Contains(s, sub) ==
    \E i \in 0..(Len(s) - Len(sub)) :
        \A j \in 1..Len(sub) : s[i + j] = sub[j]

-----------------------------------------------------------------------------
(* net/http/httputil, as called by the transport *)

\* drainBody: read the whole body and close it; on success hand out two
\* in-memory copies, on failure hand back the body as the attempt left it
drainBody(b) ==
    LET r == ReadAll(b) IN
    IF r.failed
    THEN [err |-> ReadError, save |-> NilStream, body |-> r.stream]
    ELSE IF b.fail = "close"
    THEN [err |-> CloseError, save |-> NilStream,
          body |-> [r.stream EXCEPT !.closed = TRUE]]
    ELSE [err |-> NoErr, save |-> Buffer(r.read), body |-> Buffer(r.read)]

\* request line and headers, in the order Header.Write sorts them
RequestHead(req) ==
    <<"POST /v1/apps HTTP/1.1">>
      \o <<"Authorization:", "Bearer secret123">>
      \o <<"Content-Type:">> \o req.ct

ResponseHead(resp) == <<"HTTP/1.1 200 OK">>

\* httputil.DumpRequest(req, body): the dump, the error, and the request
\* afterwards (its Body field is reassigned)
DumpRequest(req, body) ==
    IF ~body
    THEN [bytes |-> RequestHead(req), err |-> NoErr, req |-> req]
    ELSE LET d == drainBody(req.body) IN
         IF d.err # NoErr
         THEN [bytes |-> <<>>, err |-> d.err, req |-> [req EXCEPT !.body = d.body]]
         ELSE [bytes |-> RequestHead(req) \o Readable(d.body), err |-> NoErr,
               req |-> [req EXCEPT !.body = d.save]]

\* httputil.DumpResponse(resp, true)
DumpResponse(resp) ==
    LET d == drainBody(resp.body) IN
    IF d.err # NoErr
    THEN [bytes |-> <<>>, err |-> d.err, resp |-> [resp EXCEPT !.body = d.body]]
    ELSE [bytes |-> ResponseHead(resp) \o Readable(d.body), err |-> NoErr,
          resp |-> [resp EXCEPT !.body = d.save]]

-----------------------------------------------------------------------------
(* trace, time *)

\* trace.Sanitize: every sensitive value is replaced by the placeholder
Sanitize(text) ==
    [i \in 1..Len(text) |-> IF text[i] \in Sensitive THEN Placeholder ELSE text[i]]

\* a reading of time.Now(): wall clock and monotonic clock
Times == [wall : 0..MaxWall, mono : 0..MaxMono]

\* time.Now(): the monotonic clock never runs backwards, the wall clock may
\* be set to any time
TimeNow(last, range) == {t \in range : t.mono >= last.mono}

\* Time.Format(time.RFC3339): the wall clock, to the second
FormatRFC3339(t) == t.wall \div WallPerSec

\* Time.Sub: both readings carry the monotonic clock, which decides
Sub(t, u) == t.mono - u.mono

\* fmt "%.0f" of Duration.Seconds()*1000: the nearest whole millisecond; a
\* duration half-way between two may print as either
ElapsedMs(d) ==
    LET q == d \div TicksPerMs
        r == d % TicksPerMs
    IN  IF 2 * r < TicksPerMs THEN {q}
        ELSE IF 2 * r > TicksPerMs THEN {q + 1}
        ELSE {q, q + 1}

\* one write to trace.Logger
Entry(c, kind, ts, elapsed, text) ==
    [caller |-> c, kind |-> kind, ts |-> ts, elapsed |-> elapsed, text |-> text]

-----------------------------------------------------------------------------
(* TraceLoggingTransport *)

\* variant: the argument is dropped and the default RoundTripper always used
NewTraceLoggingTransport_IgnoreArg(arg) == DefaultTransport

\* NewTraceLoggingTransport: the rt field of the new transport
NewTraceLoggingTransport(arg) ==
    IF arg = NilRT THEN DefaultTransport ELSE arg

\* variant: the body is dumped whatever the Content-Type
shouldDisplayBody_Always(req) == TRUE

\* variant: the body is never dumped
shouldDisplayBody_Never(req) == FALSE

\* dumpRequest: whether the body is part of the dump
shouldDisplayBody(req) ==
    ~Contains(HeaderGetContentType(req), <<Multipart>>)

\* dumpRequest: the message logged when the dump fails
requestDumpError(c, err) ==
    Entry(c, "REQUEST DUMP ERROR", -1, -1, <<err>>)

\* variant: the dump is logged without trace.Sanitize
requestTrace_Raw(c, start, dumpedRequest) ==
    Entry(c, "REQUEST", FormatRFC3339(start), -1, dumpedRequest)

\* dumpRequest: the request trace
requestTrace(c, start, dumpedRequest) ==
    Entry(c, "REQUEST", FormatRFC3339(start), -1, Sanitize(dumpedRequest))

\* dumpRequest: the line that stands for a hidden multipart body
markerLine(c) ==
    Entry(c, "MARKER", -1, -1, <<MarkerLine>>)

\* dumpResponse: the message logged when the dump fails
responseDumpError(c, err) ==
    Entry(c, "RESPONSE DUMP ERROR", -1, -1, <<err>>)

\* variant: the elapsed time is start.Sub(end)
responseTraces_Swapped(c, start, end, dumpedResponse) ==
    { Entry(c, "RESPONSE", FormatRFC3339(end), e, Sanitize(dumpedResponse))
        : e \in ElapsedMs(Sub(start, end)) }

\* dumpResponse: the response traces the call may write, one per way the
\* elapsed time may print
responseTraces(c, start, end, dumpedResponse) ==
    { Entry(c, "RESPONSE", FormatRFC3339(end), e, Sanitize(dumpedResponse))
        : e \in ElapsedMs(Sub(end, start)) }

RequestSide == {"REQUEST", "MARKER", "REQUEST DUMP ERROR"}
ResponseSide == {"RESPONSE", "RESPONSE DUMP ERROR"}

\* a caller that has not called RoundTrip yet
IdleCall ==
    [pc |-> "idle", req |-> NilReq, start |-> [wall |-> 0, mono |-> 0],
     resp |-> NilResp, err |-> NoErr,
     retResp |-> NilResp, retErr |-> NoErr,
     \* history of the call, for the properties
     sent |-> NilReq, invoked |-> 0, invokedOn |-> NilRT, invokedWith |-> 0,
     execSeen |-> <<>>, logAtInvoke |-> 0, got |-> NilResp,
     end |-> [wall |-> 0, mono |-> 0], callerSeen |-> <<>>]

Callers == {1, 2}

TypeOK ==
    /\ rtArg \in {NilRT, CustomRT}
    /\ rt \in {NilRT, DefaultTransport, CustomRT}
    /\ now \in Times
    /\ callers \subseteq Callers
    /\ reqPool \subseteq Requests
    /\ respPool \subseteq Responses
    /\ times \subseteq Times
    /\ DOMAIN call = Callers
    /\ \A i \in 1..Len(log) : log[i].caller \in callers

\* the transport is constructed; one caller, any request and response
Init ==
    /\ rtArg \in {NilRT, CustomRT}
    /\ rt = NewTraceLoggingTransport(rtArg)
    /\ now = [wall |-> 0, mono |-> 0]
    /\ log = <<>>
    /\ call = [c \in Callers |-> IdleCall]
    /\ callers = {1}
    /\ reqPool = Requests
    /\ respPool = Responses
    /\ times = Times

\* the transport is constructed; two callers share it, with few requests,
\* responses and clock readings
InitConc ==
    /\ rtArg \in {NilRT, CustomRT}
    /\ rt = NewTraceLoggingTransport(rtArg)
    /\ now = [wall |-> 0, mono |-> 0]
    /\ log = <<>>
    /\ call = [c \in Callers |-> IdleCall]
    /\ callers = Callers
    /\ reqPool = FewRequests
    /\ respPool = FewResponses
    /\ times = {[wall |-> 0, mono |-> 0], [wall |-> MaxWall, mono |-> MaxMono]}

\* variant: a failing request dump ends the call with the dump's error
Begin_AbortOnDumpError(c) ==
    /\ call[c].pc = "idle"
    /\ \E r \in reqPool, start \in TimeNow(now, times) :
         LET req == [id |-> c, ct |-> r.ct, body |-> r.body]
             display == shouldDisplayBody(req)
             d == DumpRequest(req, display)
         IN  /\ log' = Append(log, IF d.err # NoErr
                                   THEN requestDumpError(c, d.err)
                                   ELSE requestTrace(c, start, d.bytes))
             /\ call' = [call EXCEPT ![c] =
                    [@ EXCEPT !.pc = IF d.err # NoErr THEN "returned"
                                     ELSE IF ~display THEN "marker" ELSE "dumped",
                              !.req = d.req, !.start = start, !.sent = req,
                              !.retErr = d.err]]
             /\ now' = start
    /\ UNCHANGED <<rtArg, rt, callers, reqPool, respPool, times>>

\* RoundTrip up to the first write of dumpRequest: start := time.Now(), the
\* dump of the request, and the trace or the error message
Begin(c) ==
    /\ call[c].pc = "idle"
    /\ \E r \in reqPool, start \in TimeNow(now, times) :
         LET req == [id |-> c, ct |-> r.ct, body |-> r.body]
             display == shouldDisplayBody(req)
             d == DumpRequest(req, display)
         IN  /\ log' = Append(log, IF d.err # NoErr
                                   THEN requestDumpError(c, d.err)
                                   ELSE requestTrace(c, start, d.bytes))
             /\ call' = [call EXCEPT ![c] =
                    [@ EXCEPT !.pc = IF d.err = NoErr /\ ~display
                                     THEN "marker" ELSE "dumped",
                              !.req = d.req, !.start = start, !.sent = req]]
             /\ now' = start
    /\ UNCHANGED <<rtArg, rt, callers, reqPool, respPool, times>>

\* dumpRequest, second write: the marker of a hidden body
WriteMarker(c) ==
    /\ call[c].pc = "marker"
    /\ log' = Append(log, markerLine(c))
    /\ call' = [call EXCEPT ![c].pc = "dumped"]
    /\ UNCHANGED <<rtArg, rt, now, callers, reqPool, respPool, times>>

\* r.rt.RoundTrip(req) is called: the wrapped RoundTripper gets the request
\* and reads its body
Invoke(c) ==
    /\ call[c].pc = "dumped"
    /\ call' = [call EXCEPT ![c] =
           [@ EXCEPT !.pc = "executing",
                     !.invoked = @ + 1,
                     !.invokedOn = rt,
                     !.invokedWith = call[c].req.id,
                     !.execSeen = Readable(call[c].req.body),
                     !.logAtInvoke = Len(log)]]
    /\ UNCHANGED <<rtArg, rt, now, log, callers, reqPool, respPool, times>>

\* variant: the error is not checked and the call goes on to dumpResponse
ExecFail_NoReturn(c) ==
    /\ call[c].pc = "executing"
    /\ \E e \in ExecErrs :
         call' = [call EXCEPT ![c] =
             [@ EXCEPT !.pc = "responded", !.resp = NilResp, !.err = e]]
    /\ UNCHANGED <<rtArg, rt, now, log, callers, reqPool, respPool, times>>

\* r.rt.RoundTrip(req) returns an error, and RoundTrip returns it
ExecFail(c) ==
    /\ call[c].pc = "executing"
    /\ \E e \in ExecErrs :
         call' = [call EXCEPT ![c] =
             [@ EXCEPT !.pc = "returned", !.resp = NilResp, !.err = e,
                       !.retResp = NilResp, !.retErr = e]]
    /\ UNCHANGED <<rtArg, rt, now, log, callers, reqPool, respPool, times>>

\* variant: the response is returned without dumpResponse
ExecOK_SkipDump(c) ==
    /\ call[c].pc = "executing"
    /\ \E r \in respPool :
         LET resp == [id |-> c, status |-> r.status, body |-> r.body]
         IN  call' = [call EXCEPT ![c] =
                 [@ EXCEPT !.pc = "returned", !.resp = resp, !.err = NoErr,
                           !.got = resp, !.retResp = resp, !.retErr = NoErr,
                           !.callerSeen = Readable(resp.body)]]
    /\ UNCHANGED <<rtArg, rt, now, log, callers, reqPool, respPool, times>>

\* r.rt.RoundTrip(req) returns a response
ExecOK(c) ==
    /\ call[c].pc = "executing"
    /\ \E r \in respPool :
         LET resp == [id |-> c, status |-> r.status, body |-> r.body]
         IN  call' = [call EXCEPT ![c] =
                 [@ EXCEPT !.pc = "responded", !.resp = resp, !.err = NoErr,
                           !.got = resp]]
    /\ UNCHANGED <<rtArg, rt, now, log, callers, reqPool, respPool, times>>

\* variant: a failing response dump makes RoundTrip return no response
DumpResp_NilOnDumpError(c) ==
    /\ call[c].pc = "responded"
    /\ \E end \in TimeNow(now, times) :
       LET d == DumpResponse(call[c].resp)
           ret == IF d.err # NoErr THEN NilResp ELSE d.resp
       IN  /\ now' = end
           /\ \E line \in (IF d.err # NoErr
                           THEN {responseDumpError(c, d.err)}
                           ELSE responseTraces(c, call[c].start, end, d.bytes)) :
                 log' = Append(log, line)
           /\ call' = [call EXCEPT ![c] =
                  [@ EXCEPT !.pc = "returned", !.resp = d.resp, !.end = end,
                            !.retResp = ret, !.retErr = call[c].err,
                            !.callerSeen = Readable(ret.body)]]
    /\ UNCHANGED <<rtArg, rt, callers, reqPool, respPool, times>>

\* dumpResponse and the return of RoundTrip: end := time.Now(), the dump of
\* the response, the trace or the error message
DumpResp(c) ==
    /\ call[c].pc = "responded"
    /\ \E end \in TimeNow(now, times) :
       LET d == DumpResponse(call[c].resp)
       IN  /\ now' = end
           /\ \E line \in (IF d.err # NoErr
                           THEN {responseDumpError(c, d.err)}
                           ELSE responseTraces(c, call[c].start, end, d.bytes)) :
                 log' = Append(log, line)
           /\ call' = [call EXCEPT ![c] =
                  [@ EXCEPT !.pc = "returned", !.resp = d.resp, !.end = end,
                            !.retResp = d.resp, !.retErr = call[c].err,
                            !.callerSeen = Readable(d.resp.body)]]
    /\ UNCHANGED <<rtArg, rt, callers, reqPool, respPool, times>>

Next ==
    \/ \E c \in callers : Begin(c)
    \/ \E c \in callers : WriteMarker(c)
    \/ \E c \in callers : Invoke(c)
    \/ \E c \in callers : ExecFail(c)
    \/ \E c \in callers : ExecOK(c)
    \/ \E c \in callers : DumpResp(c)

Spec == Init /\ [][Next]_vars

SpecConc == InitConc /\ [][Next]_vars

-----------------------------------------------------------------------------
(* Properties *)

\* the positions in the log of the writes caller c made, of the given kinds
Entries(c, kinds) ==
    {i \in 1..Len(log) : log[i].caller = c /\ log[i].kind \in kinds}

Began(c) == call[c].pc # "idle"
Returned(c) == call[c].pc = "returned"
ExecFailed(c) == Returned(c) /\ call[c].err # NoErr
ExecSucceeded(c) == Returned(c) /\ call[c].err = NoErr

\* dumping the request the caller passed fails
RequestDumpFails(c) ==
    /\ Began(c)
    /\ DumpRequest(call[c].sent, shouldDisplayBody(call[c].sent)).err # NoErr

IsMultipart(req) == Contains(req.ct, <<Multipart>>)

\* C1: when the wrapped RoundTripper returns an error, RoundTrip returns that
\* error and the call writes nothing about a response to the log.
C1_ErrorReturnedNoResponseTrace ==
    \A c \in callers :
        ExecFailed(c) =>
            /\ call[c].retErr = call[c].err
            /\ call[c].retErr \in ExecErrs
            /\ Entries(c, ResponseSide) = {}

C1_Witness ==
    \E c \in callers :
        /\ ExecFailed(c)
        /\ Entries(c, {"REQUEST"}) # {}

\* C2: when the wrapped RoundTripper succeeds, the caller gets the response
\* object it returned and a nil error, whether or not either dump failed.
C2_ResponsePassedThrough ==
    \A c \in callers :
        ExecSucceeded(c) =>
            /\ call[c].retResp.id = call[c].got.id
            /\ call[c].retResp.status = call[c].got.status
            /\ call[c].retResp.id = c
            /\ call[c].retErr = NoErr

C2_Witness ==
    \E c \in callers :
        /\ ExecSucceeded(c)
        /\ Entries(c, {"REQUEST DUMP ERROR"}) # {}
        /\ Entries(c, {"RESPONSE DUMP ERROR"}) # {}

\* C3: a failing request dump is logged and is not fatal: the wrapped
\* RoundTripper is still called once, with the request, and the error the
\* caller gets is the one it returned, never the dump's.
C3_RequestDumpFailureNotFatal ==
    \A c \in callers :
        RequestDumpFails(c) =>
            /\ Cardinality(Entries(c, {"REQUEST DUMP ERROR"})) = 1
            /\ call[c].pc \in {"dumped", "executing", "responded", "returned"}
            /\ call[c].invoked = (IF call[c].pc = "dumped" THEN 0 ELSE 1)
            /\ Returned(c) =>
                 /\ call[c].invokedWith = call[c].sent.id
                 /\ call[c].invokedOn = rt
                 /\ call[c].retErr = call[c].err
                 /\ call[c].retErr \in ExecErrs \cup {NoErr}

C3_Witness ==
    \E c \in callers :
        /\ RequestDumpFails(c)
        /\ Returned(c)
        /\ call[c].invoked = 1
        /\ call[c].retErr \in ExecErrs

\* C4: for a multipart/form-data request, nothing the call writes to the log
\* for the request holds any of the body, and once dumpRequest is through the
\* marker line is in the log.
C4_MultipartBodyHidden ==
    \A c \in callers :
        (Began(c) /\ IsMultipart(call[c].sent)) =>
            /\ \A i \in Entries(c, RequestSide) :
                 /\ \A k \in 1..Len(log[i].text) : log[i].text[k] \notin BodyTok
                 /\ log[i].kind = "REQUEST" =>
                      Len(log[i].text) = Len(RequestHead(call[c].sent))
            /\ call[c].pc # "marker" =>
                 \E i \in Entries(c, {"MARKER"}) : log[i].text = <<MarkerLine>>

C4_Witness ==
    \E c \in callers :
        /\ IsMultipart(call[c].sent)
        /\ call[c].sent.body.data # <<>>
        /\ call[c].pc = "dumped"
        /\ Entries(c, {"REQUEST"}) # {}
        /\ Entries(c, {"MARKER"}) # {}

C6_DumpsRedacted ==
    \A c \in callers :
        /\ \A i \in Entries(c, {"REQUEST"}) :
             LET dump == DumpRequest(call[c].sent,
                                     shouldDisplayBody(call[c].sent)).bytes
                 text == log[i].text
             IN  /\ Len(text) = Len(dump)
                 /\ \A k \in 1..Len(dump) :
                      /\ text[k] \notin Sensitive
                      /\ dump[k] \in Sensitive => text[k] = Placeholder
                      /\ dump[k] \notin Sensitive => text[k] = dump[k]
        /\ \A i \in Entries(c, {"RESPONSE"}) :
             LET dump == DumpResponse(call[c].got).bytes
                 text == log[i].text
             IN  /\ Len(text) = Len(dump)
                 /\ \A k \in 1..Len(dump) :
                      /\ text[k] \notin Sensitive
                      /\ dump[k] \in Sensitive => text[k] = Placeholder
                      /\ dump[k] \notin Sensitive => text[k] = dump[k]

C6_Witness ==
    \E c \in callers :
        /\ Began(c)
        /\ call[c].got.body.data = <<"access_token=abc">>
        /\ \E i \in Entries(c, {"REQUEST"}) :
             \E k \in 1..Len(log[i].text) : log[i].text[k] = Placeholder
        /\ \E i \in Entries(c, {"RESPONSE"}) :
             \E k \in 1..Len(log[i].text) : log[i].text[k] = Placeholder

\* C7: a call makes one request dump attempt and at most one response dump
\* attempt, the latter exactly when the wrapped RoundTripper succeeded; when
\* it fails, all the call wrote is on the request side.
C7_OneTracePerCall ==
    \A c \in callers :
        /\ ~Began(c) => Entries(c, RequestSide \cup ResponseSide) = {}
        /\ Began(c) =>
             Cardinality(Entries(c, {"REQUEST", "REQUEST DUMP ERROR"})) = 1
        /\ ~Returned(c) => Entries(c, ResponseSide) = {}
        /\ ExecSucceeded(c) => Cardinality(Entries(c, ResponseSide)) = 1
        /\ ExecFailed(c) =>
             /\ Entries(c, ResponseSide) = {}
             /\ \A i \in 1..Len(log) :
                  log[i].caller = c => log[i].kind \in RequestSide

C7_Witness ==
    /\ \E c \in callers :
         /\ ExecSucceeded(c)
         /\ Entries(c, {"REQUEST"}) # {}
         /\ Entries(c, {"RESPONSE"}) # {}

\* C8: the dumps leave the bodies readable: the wrapped RoundTripper can read
\* all of the request body, and the caller all of the response body, whether
\* the dump succeeded or failed.
C8_BodiesStillReadable ==
    \A c \in callers :
        /\ call[c].invoked >= 1 =>
             call[c].execSeen = Readable(call[c].sent.body)
        /\ ExecSucceeded(c) =>
             call[c].callerSeen = Readable(call[c].got.body)

\* C9: the elapsed time of a response trace is not negative and is end - start
\* to the nearest millisecond, start read when RoundTrip began and end when
\* the wrapped RoundTripper had returned; the traces carry those two times.
C9_ElapsedIsEndMinusStart ==
    \A c \in callers :
        /\ \A i \in Entries(c, {"RESPONSE"}) :
             LET d == call[c].end.mono - call[c].start.mono
                 e == log[i].elapsed
             IN  /\ e >= 0
                 /\ 2 * (e * TicksPerMs - d) <= TicksPerMs
                 /\ 2 * (d - e * TicksPerMs) <= TicksPerMs
                 /\ log[i].ts = call[c].end.wall \div WallPerSec
        /\ \A i \in Entries(c, {"REQUEST"}) :
             log[i].ts = call[c].start.wall \div WallPerSec

C9_Witness ==
    \E c \in callers :
        /\ call[c].end.mono - call[c].start.mono >= TicksPerMs
        /\ call[c].end.wall < call[c].start.wall
        /\ \E i \in Entries(c, {"RESPONSE"}) : log[i].elapsed >= 1
        /\ Entries(c, {"REQUEST"}) # {}

\* C10: with concurrent calls, the rt field stays the RoundTripper chosen at
\* construction (the default one for nil), and each call writes its request
\* side to the log before it calls the wrapped RoundTripper and its response
\* side after.
C10_ConcurrentCallsOrdered ==
    /\ rt = (IF rtArg = NilRT THEN DefaultTransport ELSE rtArg)
    /\ \A c \in callers :
         /\ call[c].invoked = 0 =>
              Entries(c, ResponseSide) = {}
         /\ call[c].invoked >= 1 =>
              /\ call[c].invokedOn = rt
              /\ Entries(c, RequestSide) # {}
              /\ \A i \in Entries(c, RequestSide) : i <= call[c].logAtInvoke
              /\ \A i \in Entries(c, ResponseSide) : i > call[c].logAtInvoke

C10_Witness ==
    /\ \A c \in Callers : c \in callers /\ Returned(c)
    /\ \E i, j, k \in 1..Len(log) :
         /\ i < j /\ j < k
         /\ log[i].caller = log[k].caller
         /\ log[i].caller # log[j].caller
         /\ log[i].kind \in RequestSide
         /\ log[k].kind \in ResponseSide

====
